---- MODULE Spec2Model ----
(***************************************************************************)
(* Model of app/engine/grid.py: the Grid class (occupancy table of 9x5     *)
(* cells holding GameObject references, placement / removal / movement,    *)
(* validity and movement predicates).                                      *)
(*                                                                         *)
(* Spec  : the mutators __setitem__, add, remove and move, called in any   *)
(*         order on the board that Grid.__init__ builds.                   *)
(* SpecQ : the queries __getitem__, is_valid, can_move and                 *)
(*         can_move_to_tile, applied to a populated board.                 *)
(* SpecS : one call of enemy_spawn_location, one random draw per step.     *)
(* SpecN : every query, the neighbourhood generators included.             *)
(* SpecT : initialize_tiles, get_tile and the mutators.                    *)
(* SpecP : the mutators as callers that validate first issue them.         *)
(*                                                                         *)
(* call, pre, ret and raised record the last call: its name and arguments, *)
(* where and how often its object was stored before it, what it returned   *)
(* and whether an IndexError escaped from it.                              *)
(*                                                                         *)
(* GameObject references are the integers 1..NumObjs; Python's None is 0.  *)
(* Python list indexing is modelled as the interpreter does it: an index   *)
(* i into a list of length n addresses element i when 0 <= i < n, element  *)
(* i + n when -n <= i < 0, and raises IndexError otherwise.                *)
(***************************************************************************)
EXTENDS Integers, Sequences, FiniteSets, TLC

\* ---------------------------------------------------------------- constants
W == 9
H == 5
None == 0
IndexError == -1
Sentinel == <<-1, -1>>

\* ------------------------------------------------------------------- bounds
NumObjs == 2
MaxMove == 2
MaxTarget == 3
MaxAttempts == 2
MaxDist == 2
MaxSetups == 2

Objs == 1 .. NumObjs
Val == Objs \cup {None}
Cells == (0 .. W - 1) \X (0 .. H - 1)

\* coordinates the callers pass to the mutators: the first two cells of row
\* 0 and the far corner; a negative pair, which Python wraps to the far
\* corner, and a pair beyond each list's end
InCoords == {<<0, 0>>, <<1, 0>>, <<W - 1, H - 1>>}
OutCoords == {<<-1, -1>>, <<W, 0>>, <<0, H>>}
Coords == InCoords \cup OutCoords

\* coordinates the callers pass to the queries
QueryX == (-1 .. MaxTarget) \cup {W - 1, W}
QueryY == (-1 .. 1) \cup {H - 1, H}

VARIABLES array, tiles, ox, oy, omove, call, pre, ret, raised, spawn

vars == <<array, tiles, ox, oy, omove, call, pre, ret, raised, spawn>>

\* ------------------------------------------------------- Python list access
IndexRaises(i, n) == i >= n \/ i < -n

IndexOf(i, n) == IF i < 0 THEN i + n ELSE i

\* ------------------------------------------------------------ pure queries
is_valid(x, y) == x \in 0 .. 8 /\ y \in 0 .. 4

\* __getitem__ without its is_valid guard
GetItem_Unguarded(arr, x, y) ==
    IF IndexRaises(x, W) \/ IndexRaises(y, H) THEN IndexError
    ELSE arr[IndexOf(x, W)][IndexOf(y, H)]

\* Grid.__getitem__ on a given table: None when the guard fails, the value
\* IndexError when the list access behind the guard raises
GetItem(arr, x, y) ==
    IF is_valid(x, y)
    THEN IF IndexRaises(x, W) \/ IndexRaises(y, H) THEN IndexError
         ELSE arr[IndexOf(x, W)][IndexOf(y, H)]
    ELSE None

\* the test `self[x, y] != obj` of the scan being false
Holds(arr, obj, x, y) == ~(GetItem(arr, x, y) # obj)

\* coordinates with the loops exchanged: y outside, x inside
coordinates_YOuter(arr, obj) ==
    IF \A x \in 0 .. 8 : \A y \in 0 .. 4 : ~Holds(arr, obj, x, y) THEN Sentinel
    ELSE LET y == CHOOSE j \in 0 .. 4 :
                      /\ \E i \in 0 .. 8 : Holds(arr, obj, i, j)
                      /\ \A k \in 0 .. j - 1 : \A i \in 0 .. 8 : ~Holds(arr, obj, i, k)
             x == CHOOSE i \in 0 .. 8 :
                      /\ Holds(arr, obj, i, y)
                      /\ \A k \in 0 .. i - 1 : ~Holds(arr, obj, k, y)
         IN  <<x, y>>

\* Grid.coordinates: x in the outer loop, y in the inner one, the first cell
\* that holds obj, (-1, -1) when the loops run out
coordinates(arr, obj) ==
    IF \A x \in 0 .. 8 : \A y \in 0 .. 4 : ~Holds(arr, obj, x, y) THEN Sentinel
    ELSE LET x == CHOOSE i \in 0 .. 8 :
                      /\ \E j \in 0 .. 4 : Holds(arr, obj, i, j)
                      /\ \A k \in 0 .. i - 1 : \A j \in 0 .. 4 : ~Holds(arr, obj, k, j)
             y == CHOOSE j \in 0 .. 4 :
                      /\ Holds(arr, obj, x, j)
                      /\ \A k \in 0 .. j - 1 : ~Holds(arr, obj, x, k)
         IN  <<x, y>>

\* can_move with a range test that forgets the lower bounds
can_move_NoLower(arr, x, y) ==
    IF x > 8 \/ y > 4 THEN FALSE
    ELSE GetItem(arr, x, y) = None

can_move(arr, x, y) ==
    IF x \notin 0 .. 8 \/ y \notin 0 .. 4 THEN FALSE
    ELSE GetItem(arr, x, y) = None

Abs(n) == IF n < 0 THEN -n ELSE n

\* can_move_to_tile with a strict comparison against the budget
can_move_to_tile_Strict(arr, nx, ny, nmove, x, y) ==
    IF x \notin 0 .. 8 \/ y \notin 0 .. 4 THEN FALSE
    ELSE IF ~can_move(arr, x, y) THEN FALSE
    ELSE LET distance == Abs(x - nx) + Abs(y - ny)
         IN  distance < nmove

can_move_to_tile(arr, nx, ny, nmove, x, y) ==
    IF x \notin 0 .. 8 \/ y \notin 0 .. 4 THEN FALSE
    ELSE IF ~can_move(arr, x, y) THEN FALSE
    ELSE LET distance == Abs(x - nx) + Abs(y - ny)
         IN  distance <= nmove

\* initialize_tiles whose outer loop stops one column early
initialize_tiles_Short(ts) ==
    ts \o [k \in 1 .. (W - 1) * H |-> <<(k - 1) \div H, (k - 1) % H>>]

\* ------------------------------------------------------------------- tiles
\* A tile is the GameObject created for one coordinate; it is written as the
\* pair of its x and y fields.  Grid.tiles is the list of the tiles.
initialize_tiles(ts) ==
    ts \o [k \in 1 .. W * H |-> <<(k - 1) \div H, (k - 1) % H>>]

\* Grid.get_tile: the first tile of the list with the given fields, or None
get_tile(ts, x, y) ==
    LET hits == {i \in 1 .. Len(ts) : ts[i][1] = x /\ ts[i][2] = y}
    IN  IF hits = {} THEN None
        ELSE ts[CHOOSE i \in hits : \A j \in hits : i <= j]

\* ------------------------------------------------------------ neighbourhood
\* the pairs (x, y) the two nested loops of surrounding_tiles visit, in order
Square(cx, cy, d) ==
    [k \in 1 .. (2 * d + 1) * (2 * d + 1) |->
        <<cx - d + ((k - 1) \div (2 * d + 1)), cy - d + ((k - 1) % (2 * d + 1))>>]

\* the list of a sequence's elements mapped through get_tile
TilesAt(ts, cs) == [i \in 1 .. Len(cs) |-> get_tile(ts, cs[i][1], cs[i][2])]

\* surrounding_tiles with the loops exchanged: y outside, x inside
surrounding_tiles_YOuter(ts, cx, cy, d) ==
    TilesAt(ts, SelectSeq([k \in 1 .. (2 * d + 1) * (2 * d + 1) |->
                              <<cx - d + ((k - 1) % (2 * d + 1)),
                                cy - d + ((k - 1) \div (2 * d + 1))>>],
                          LAMBDA c : is_valid(c[1], c[2])
                                     /\ ~(c[1] = cx /\ c[2] = cy)))

\* Grid.surrounding_tiles: what the generator yields, as a list
surrounding_tiles(ts, cx, cy, d) ==
    TilesAt(ts, SelectSeq(Square(cx, cy, d),
                          LAMBDA c : is_valid(c[1], c[2])
                                     /\ ~(c[1] = cx /\ c[2] = cy)))

\* self[tile.x, tile.y] for every tile of a list
ObjectsAt(arr, ts) == [i \in 1 .. Len(ts) |-> GetItem(arr, ts[i][1], ts[i][2])]

\* Grid.surrounding_objects: what the generator yields, as a list
surrounding_objects(arr, ts, x, y, d) ==
    SelectSeq(ObjectsAt(arr, surrounding_tiles(ts, x, y, d)),
              LAMBDA object : object # None)

\* ----------------------------------------------------------------- mutators
\* A board state is a record [array, ox, oy, raised]; each mutator maps a
\* board state to the board state the call leaves behind.
Board == [array |-> array, ox |-> ox, oy |-> oy, raised |-> FALSE]

\* __setitem__ that stores the reference but leaves value.x, value.y alone
SetItem_NoSync(b, x, y, value) ==
    IF IndexRaises(x, W) \/ IndexRaises(y, H) THEN [b EXCEPT !.raised = TRUE]
    ELSE [b EXCEPT !.array[IndexOf(x, W)][IndexOf(y, H)] = value]

SetItem(b, x, y, value) ==
    IF IndexRaises(x, W) \/ IndexRaises(y, H) THEN [b EXCEPT !.raised = TRUE]
    ELSE LET a1 == [b.array EXCEPT ![IndexOf(x, W)][IndexOf(y, H)] = value]
         IN  IF value # None
             THEN [b EXCEPT !.array = a1, !.ox[value] = x, !.oy[value] = y]
             ELSE [b EXCEPT !.array = a1]

add(b, obj) == SetItem(b, b.ox[obj], b.oy[obj], obj)

remove(b, obj) ==
    LET c == coordinates(b.array, obj)
    IN  SetItem(b, c[1], c[2], None)

\* move that places the object without removing it first
move_NoRemove(b, obj, x, y) == SetItem(b, x, y, obj)

move(b, obj, x, y) ==
    LET b1 == remove(b, obj)
    IN  IF b1.raised THEN b1 ELSE SetItem(b1, x, y, obj)

\* number of cells of the table that hold obj
Count(arr, obj) == Cardinality({c \in Cells : arr[c[1]][c[2]] = obj})

\* what the table held of obj before the call: the first cell in scan order
\* and the number of cells
Seen(hits) ==
    [at |-> IF hits = {} THEN Sentinel
            ELSE CHOOSE c \in hits :
                     \A d \in hits : c[1] < d[1] \/ (c[1] = d[1] /\ c[2] <= d[2]),
     n |-> Cardinality(hits)]

Observe(obj) ==
    IF obj = None THEN [at |-> Sentinel, n |-> 0]
    ELSE Seen({c \in Cells : array[c[1]][c[2]] = obj})

\* ------------------------------------------------------------------ actions
Set(x, y, value) ==
    \E b \in {SetItem(Board, x, y, value)} :
        /\ array' = b.array
        /\ ox' = b.ox
        /\ oy' = b.oy
        /\ raised' = b.raised
        /\ call' = [op |-> "set", obj |-> value, x |-> x, y |-> y]
        /\ pre' = Observe(value)
        /\ ret' = None
        /\ UNCHANGED <<omove, tiles, spawn>>

Add(obj) ==
    \E b \in {add(Board, obj)} :
        /\ array' = b.array
        /\ ox' = b.ox
        /\ oy' = b.oy
        /\ raised' = b.raised
        /\ call' = [op |-> "add", obj |-> obj, x |-> ox[obj], y |-> oy[obj]]
        /\ pre' = Observe(obj)
        /\ ret' = None
        /\ UNCHANGED <<omove, tiles, spawn>>

Remove(obj) ==
    \E b \in {remove(Board, obj)} :
        /\ array' = b.array
        /\ ox' = b.ox
        /\ oy' = b.oy
        /\ raised' = b.raised
        /\ call' = [op |-> "remove", obj |-> obj, x |-> -1, y |-> -1]
        /\ pre' = Observe(obj)
        /\ ret' = None
        /\ UNCHANGED <<omove, tiles, spawn>>

Move(obj, x, y) ==
    \E b \in {move(Board, obj, x, y)} :
        /\ array' = b.array
        /\ ox' = b.ox
        /\ oy' = b.oy
        /\ raised' = b.raised
        /\ call' = [op |-> "move", obj |-> obj, x |-> x, y |-> y]
        /\ pre' = Observe(obj)
        /\ ret' = None
        /\ UNCHANGED <<omove, tiles, spawn>>

NoCall == [op |-> "new", obj |-> None, x |-> -1, y |-> -1]

\* no call of enemy_spawn_location is under way
Idle == [pc |-> "idle", max |-> 0, i |-> 0]

Empty == [x \in 0 .. W - 1 |-> [y \in 0 .. H - 1 |-> None]]

Init ==
    /\ array = Empty
    /\ tiles = <<>>
    /\ spawn = Idle
    /\ \E f \in [Objs -> InCoords] :
          /\ ox = [o \in Objs |-> f[o][1]]
          /\ oy = [o \in Objs |-> f[o][2]]
    /\ omove = [o \in Objs |-> MaxMove]
    /\ call = NoCall
    /\ pre = [at |-> Sentinel, n |-> 0]
    /\ ret = None
    /\ raised = FALSE

DoSet == \E c \in Coords : \E v \in Val : Set(c[1], c[2], v)
DoAdd == \E o \in Objs : Add(o)
DoRemove == \E o \in Objs : Remove(o)
DoMove == \E o \in Objs : \E c \in Coords : Move(o, c[1], c[2])

Next == DoSet \/ DoAdd \/ DoRemove \/ DoMove

Spec == Init /\ [][Next]_vars

\* ------------------------------------------------------- query specification
\* The queries read the table and the fields of the object they are given.
\* InitQ draws a table, the objects' fields and the arguments of the call;
\* each action applies one query to those arguments and records its result.
QueryCells == {<<0, 1>>, <<1, 0>>, <<W - 1, H - 1>>}

InitQ ==
    /\ \E g \in [QueryCells -> Val] :
          array = [x \in 0 .. W - 1 |-> [y \in 0 .. H - 1 |->
                      IF <<x, y>> \in QueryCells THEN g[<<x, y>>] ELSE None]]
    /\ tiles = initialize_tiles(<<>>)
    /\ spawn = Idle
    /\ \E f \in [Objs -> InCoords] :
          /\ ox = [o \in Objs |-> f[o][1]]
          /\ oy = [o \in Objs |-> f[o][2]]
    /\ \E m \in 0 .. MaxMove : omove = [o \in Objs |-> m]
    /\ \E o \in Objs : \E x \in QueryX : \E y \in QueryY :
          call = [op |-> "new", obj |-> o, x |-> x, y |-> y]
    /\ pre = [at |-> Sentinel, n |-> 0]
    /\ ret = None
    /\ raised = FALSE

QGetItem ==
    LET r == GetItem(array, call.x, call.y)
    IN  /\ call' = [call EXCEPT !.op = "getitem"]
        /\ ret' = r
        /\ raised' = (r = IndexError)
        /\ UNCHANGED <<array, tiles, ox, oy, omove, pre, spawn>>

QIsValid ==
    /\ call' = [call EXCEPT !.op = "is_valid"]
    /\ ret' = is_valid(call.x, call.y)
    /\ raised' = FALSE
    /\ UNCHANGED <<array, tiles, ox, oy, omove, pre, spawn>>

QCanMove ==
    /\ call' = [call EXCEPT !.op = "can_move"]
    /\ ret' = can_move(array, call.x, call.y)
    /\ raised' = FALSE
    /\ UNCHANGED <<array, tiles, ox, oy, omove, pre, spawn>>

\* a can_move_to_tile that spends the object's range when it answers
QCanMoveToTile_Spends ==
    /\ call' = [call EXCEPT !.op = "can_move_to_tile"]
    /\ ret' = can_move_to_tile(array, ox[call.obj], oy[call.obj],
                               omove[call.obj], call.x, call.y)
    /\ raised' = FALSE
    /\ omove' = [omove EXCEPT ![call.obj] = 0]
    /\ UNCHANGED <<array, tiles, ox, oy, pre, spawn>>

QCanMoveToTile ==
    /\ call' = [call EXCEPT !.op = "can_move_to_tile"]
    /\ ret' = can_move_to_tile(array, ox[call.obj], oy[call.obj],
                               omove[call.obj], call.x, call.y)
    /\ raised' = FALSE
    /\ UNCHANGED <<array, tiles, ox, oy, omove, pre, spawn>>

NextQ == QGetItem \/ QIsValid \/ QCanMove \/ QCanMoveToTile

SpecQ == InitQ /\ [][NextQ]_vars

\* ------------------------------------------------------- spawn specification
\* Grid.enemy_spawns: the ranges the spawn coordinates are drawn from
SpawnX_Wide == 5 .. 8

SpawnX == 6 .. 8

SpawnY == 0 .. 4

SpawnZone == SpawnX \X SpawnY

\* `for _ in range(max_attempts)` with one iteration too many
more_OffByOne(sp) == sp.i <= sp.max

\* `for _ in range(max_attempts)`: another iteration follows
more(sp) == sp.i < sp.max

\* what an exhausted search would return if it fell back on a scan of the zone
exhausted_Fallback(arr) ==
    IF \E c \in SpawnZone : arr[c[1]][c[2]] = None
    THEN CHOOSE c \in SpawnZone : arr[c[1]][c[2]] = None
    ELSE Sentinel

\* `return (-1, -1)` after the loop
exhausted(arr) == Sentinel

\* The boards the search is run on: the first k cells of the zone, in scan
\* order, are occupied, the objects taking turns; the columns 0..5 stay empty.
ZoneIndex(c) == (c[1] - 6) * H + c[2]

InitS ==
    /\ \E k \in 0 .. 3 * H :
          array = [x \in 0 .. W - 1 |-> [y \in 0 .. H - 1 |->
                      IF x >= 6 /\ ZoneIndex(<<x, y>>) < k
                      THEN 1 + ((x + y) % NumObjs) ELSE None]]
    /\ tiles = initialize_tiles(<<>>)
    /\ spawn = Idle
    /\ ox = [o \in Objs |-> W - 1]
    /\ oy = [o \in Objs |-> H - 1]
    /\ omove = [o \in Objs |-> MaxMove]
    /\ call = NoCall
    /\ pre = [at |-> Sentinel, n |-> 0]
    /\ ret = <<>>
    /\ raised = FALSE

\* enemy_spawn_location(max_attempts) is entered; ret is the empty tuple
\* until the call returns its pair
SpawnCall ==
    /\ spawn.pc # "loop"
    /\ \E m \in 0 .. MaxAttempts : spawn' = [pc |-> "loop", max |-> m, i |-> 0]
    /\ call' = [op |-> "enemy_spawn_location", obj |-> None, x |-> -1, y |-> -1]
    /\ ret' = <<>>
    /\ raised' = FALSE
    /\ UNCHANGED <<array, tiles, ox, oy, omove, pre>>

\* one iteration of the loop: a draw, accepted when can_move says so
SpawnDraw ==
    /\ spawn.pc = "loop"
    /\ more(spawn)
    /\ \E x \in SpawnX : \E y \in SpawnY :
          /\ call' = [call EXCEPT !.x = x, !.y = y]
          /\ IF can_move(array, x, y)
             THEN /\ spawn' = [spawn EXCEPT !.i = @ + 1, !.pc = "done"]
                  /\ ret' = <<x, y>>
             ELSE /\ spawn' = [spawn EXCEPT !.i = @ + 1]
                  /\ ret' = ret
    /\ UNCHANGED <<array, tiles, ox, oy, omove, pre, raised>>

\* the loop has run out
SpawnExhausted ==
    /\ spawn.pc = "loop"
    /\ ~more(spawn)
    /\ spawn' = [spawn EXCEPT !.pc = "done"]
    /\ ret' = exhausted(array)
    /\ UNCHANGED <<array, tiles, ox, oy, omove, call, pre, raised>>

NextS == SpawnCall \/ SpawnDraw \/ SpawnExhausted

SpecS == InitS /\ [][NextS]_vars

\* the interpreter keeps running the call it has entered
FairSpecS == SpecS /\ WF_vars(SpawnDraw) /\ WF_vars(SpawnExhausted)

\* --------------------------------------------------- all-queries specification
\* Every query of the class on a board that has been set up.  InitN draws
\* the table, the objects' fields and the arguments: an object, a coordinate
\* (target or centre) and a distance.
NeighCells == {<<0, 0>>, <<0, 1>>, <<1, 0>>}
CentreX == {-1, 0, 4, W - 1}
CentreY == {0, 2, H - 1, H}

InitN ==
    /\ \E g \in [NeighCells -> Val] :
          array = [x \in 0 .. W - 1 |-> [y \in 0 .. H - 1 |->
                      IF <<x, y>> \in NeighCells THEN g[<<x, y>>] ELSE None]]
    /\ tiles = initialize_tiles(<<>>)
    /\ spawn = Idle
    /\ \E p \in {<<0, 0>>, <<W - 1, H - 1>>} :
          /\ ox = [o \in Objs |-> p[1]]
          /\ oy = [o \in Objs |-> p[2]]
    /\ omove = [o \in Objs |-> MaxMove]
    /\ \E o \in Objs : \E x \in CentreX : \E y \in CentreY : \E d \in 0 .. MaxDist :
          call = [op |-> "new", obj |-> o, x |-> x, y |-> y, d |-> d]
    /\ pre = [at |-> Sentinel, n |-> 0]
    /\ ret = None
    /\ raised = FALSE

QCoordinates ==
    /\ call' = [call EXCEPT !.op = "coordinates"]
    /\ ret' = coordinates(array, call.obj)
    /\ raised' = FALSE
    /\ UNCHANGED <<array, tiles, ox, oy, omove, pre, spawn>>

QGetTile ==
    /\ call' = [call EXCEPT !.op = "get_tile"]
    /\ ret' = get_tile(tiles, call.x, call.y)
    /\ raised' = FALSE
    /\ UNCHANGED <<array, tiles, ox, oy, omove, pre, spawn>>

QSurroundingTiles ==
    /\ call' = [call EXCEPT !.op = "surrounding_tiles"]
    /\ ret' = surrounding_tiles(tiles, call.x, call.y, call.d)
    /\ raised' = FALSE
    /\ UNCHANGED <<array, tiles, ox, oy, omove, pre, spawn>>

QSurroundingObjects ==
    /\ call' = [call EXCEPT !.op = "surrounding_objects"]
    /\ ret' = surrounding_objects(array, tiles, call.x, call.y, call.d)
    /\ raised' = FALSE
    /\ UNCHANGED <<array, tiles, ox, oy, omove, pre, spawn>>

NextN ==
    \/ QGetItem \/ QIsValid \/ QCanMove \/ QCanMoveToTile
    \/ QCoordinates \/ QGetTile \/ QSurroundingTiles \/ QSurroundingObjects

SpecN == InitN /\ [][NextN]_vars

\* ------------------------------------------------------ protocol specification
\* The callers' protocol: an object is placed (set, add) only right after
\* can_move of the target cell returned True, and moved only right after
\* can_move_to_tile of the object and the target returned True.  remove has no
\* precondition.
PSet ==
    \E c \in Coords : \E o \in Objs :
        /\ can_move(array, c[1], c[2])
        /\ Set(c[1], c[2], o)

PAdd ==
    \E o \in Objs :
        /\ can_move(array, ox[o], oy[o])
        /\ Add(o)

PMove ==
    \E o \in Objs : \E c \in Coords :
        /\ can_move_to_tile(array, ox[o], oy[o], omove[o], c[1], c[2])
        /\ Move(o, c[1], c[2])

PRemove == \E o \in Objs : Remove(o)

NextP == PSet \/ PAdd \/ PMove \/ PRemove

SpecP == Init /\ [][NextP]_vars

\* --------------------------------------------------------- tiles specification
\* The board from its construction on: initialize_tiles, then every operation
\* of the class next to the tile queries.  The objects placed in the table
\* are the units; the tiles are never handed to the mutators.
TileCells == {<<W - 1, H - 1>>}
TileX == {-1, 0, W - 1, W}
TileY == {H - 1, H}

InitializeTiles ==
    /\ spawn.pc # "loop"
    /\ Len(tiles) < MaxSetups * W * H
    /\ tiles' = initialize_tiles(tiles)
    /\ call' = [op |-> "initialize_tiles", obj |-> None, x |-> -1, y |-> -1]
    /\ ret' = None
    /\ raised' = FALSE
    /\ UNCHANGED <<array, ox, oy, omove, pre, spawn>>

TSet ==
    /\ spawn.pc # "loop"
    /\ \E c \in TileCells : \E o \in Objs : Set(c[1], c[2], o)

TAdd == spawn.pc # "loop" /\ \E o \in Objs : Add(o)

TRemove == spawn.pc # "loop" /\ \E o \in Objs : Remove(o)

TMove ==
    /\ spawn.pc # "loop"
    /\ \E o \in Objs : \E c \in TileCells : Move(o, c[1], c[2])

TGetTile ==
    /\ spawn.pc # "loop"
    /\ \E x \in TileX : \E y \in TileY :
          /\ call' = [op |-> "get_tile", obj |-> None, x |-> x, y |-> y]
          /\ ret' = get_tile(tiles, x, y)
    /\ raised' = FALSE
    /\ UNCHANGED <<array, tiles, ox, oy, omove, pre, spawn>>

\* the neighbourhood queries around a corner; before the setup get_tile gives
\* None for every neighbour and surrounding_objects fails on tile.x
TSurroundingTiles ==
    /\ spawn.pc # "loop"
    /\ \E c \in TileCells :
          /\ call' = [op |-> "surrounding_tiles", obj |-> None,
                      x |-> c[1], y |-> c[2]]
          /\ ret' = surrounding_tiles(tiles, c[1], c[2], 1)
    /\ raised' = FALSE
    /\ UNCHANGED <<array, tiles, ox, oy, omove, pre, spawn>>

TSurroundingObjects ==
    /\ spawn.pc # "loop"
    /\ \E c \in TileCells :
          /\ call' = [op |-> "surrounding_objects", obj |-> None,
                      x |-> c[1], y |-> c[2]]
          /\ IF tiles = <<>>
             THEN ret' = <<>> /\ raised' = TRUE
             ELSE /\ ret' = surrounding_objects(array, tiles, c[1], c[2], 1)
                  /\ raised' = FALSE
    /\ UNCHANGED <<array, tiles, ox, oy, omove, pre, spawn>>

InitT ==
    /\ array = Empty
    /\ tiles = <<>>
    /\ spawn = Idle
    /\ \E f \in [Objs -> TileCells] :
          /\ ox = [o \in Objs |-> f[o][1]]
          /\ oy = [o \in Objs |-> f[o][2]]
    /\ omove = [o \in Objs |-> MaxMove]
    /\ call = NoCall
    /\ pre = [at |-> Sentinel, n |-> 0]
    /\ ret = None
    /\ raised = FALSE

NextT ==
    \/ InitializeTiles
    \/ TSet \/ TAdd \/ TRemove \/ TMove
    \/ TGetTile \/ TSurroundingTiles \/ TSurroundingObjects
    \/ SpawnCall \/ SpawnDraw \/ SpawnExhausted

SpecT == InitT /\ [][NextT]_vars

\* ------------------------------------------------------------------- claims

\* C1: after any sequence of set, add, remove and move calls from the empty
\* board, no object reference is stored in more than one cell of the table.
C1_AtMostOneCell == \A o \in Objs : Count(array, o) <= 1

\* C2: remove(obj) for an object stored in no cell is a no-op: every cell
\* holds the same value after the call as before it.
C2_RemoveAbsentNoOp ==
    [][(call'.op = "remove" /\ pre'.n = 0) => array' = array]_vars

\* C3: after set(x, y, obj) with (x, y) in range, at(x, y) returns obj and
\* obj.x = x, obj.y = y; after set(x, y, None), at(x, y) returns None.
C3_SetThenAt ==
    (call.op = "set" /\ call.x >= 0 /\ call.x <= 8 /\ call.y >= 0 /\ call.y <= 4)
        => /\ ~raised
           /\ GetItem(array, call.x, call.y) = call.obj
           /\ call.obj # None => (ox[call.obj] = call.x /\ oy[call.obj] = call.y)

\* C3 witness: an object that was stored in another cell has been set at an
\* in-range cell.
C3_Witness ==
    /\ call.op = "set" /\ ~raised
    /\ call.obj # None
    /\ call.x \in 0 .. 8 /\ call.y \in 0 .. 4
    /\ pre.n = 1 /\ pre.at # <<call.x, call.y>>
    /\ array[call.x][call.y] = call.obj

\* C4: for an object that was placed on the board and then removed,
\* locate(obj) returns (-1, -1) and at() of its former cell returns None.
C4_RemovedIsGone ==
    (call.op = "remove" /\ pre.n >= 1)
        => /\ coordinates(array, call.obj) = <<-1, -1>>
           /\ GetItem(array, pre.at[1], pre.at[2]) = None

\* C5: after every placement, removal or move of an object, the object's
\* own (x, y) equals locate(obj).  Stated for the calls that stay in range
\* and for objects stored in at most one cell and not placed a second time.
C5_FieldsEqualLocate ==
    (/\ call.op \in {"set", "add", "remove", "move"}
     /\ call.obj # None
     /\ ~raised
     /\ pre.n <= 1
     /\ call.op # "remove" => (call.x \in 0 .. 8 /\ call.y \in 0 .. 4)
     /\ call.op = "remove" => pre.n = 1
     /\ call.op \in {"set", "add"} => (pre.n = 0 \/ pre.at = <<call.x, call.y>>))
        => <<ox[call.obj], oy[call.obj]>> = coordinates(array, call.obj)

\* C6: can_move_to_tile(unit, x, y) is true iff (x, y) is in range, the cell
\* is empty and |x - unit.x| + |y - unit.y| <= unit.move.
C6_CanMoveToTileIff ==
    call.op = "can_move_to_tile"
        => LET dx == IF call.x >= ox[call.obj] THEN call.x - ox[call.obj]
                     ELSE ox[call.obj] - call.x
               dy == IF call.y >= oy[call.obj] THEN call.y - oy[call.obj]
                     ELSE oy[call.obj] - call.y
           IN  /\ ~raised
               /\ ret = TRUE <=>
                     /\ call.x >= 0 /\ call.x <= 8 /\ call.y >= 0 /\ call.y <= 4
                     /\ array[call.x][call.y] = None
                     /\ dx + dy <= omove[call.obj]

\* C6 witness: the target is in range and empty, one step beyond the budget,
\* and the answer is false.
C6_Witness ==
    /\ call.op = "can_move_to_tile"
    /\ call.x \in 0 .. 8 /\ call.y \in 0 .. 4
    /\ array[call.x][call.y] = None
    /\ ox[call.obj] = 0 /\ oy[call.obj] = 0
    /\ call.x + call.y = omove[call.obj] + 1
    /\ ret = FALSE

\* C7: can_move(x, y) is true iff (x, y) is in range and the cell is empty;
\* it is false for every out-of-range coordinate whatever the table holds.
C7_CanMoveIff ==
    call.op = "can_move"
        => /\ ~raised
           /\ ret = TRUE <=>
                 /\ call.x >= 0 /\ call.x <= 8 /\ call.y >= 0 /\ call.y <= 4
                 /\ array[call.x][call.y] = None

\* C7 witness: an out-of-range coordinate is refused on a board that has an
\* empty cell, and Python's negative index would address an empty cell.
C7_Witness ==
    /\ call.op = "can_move"
    /\ call.x = -1 /\ call.y = -1
    /\ array[W - 1][H - 1] = None
    /\ ret = FALSE

\* C8: move(obj, x, y) never fails: for every destination, out-of-range
\* ones included, it completes without an error with obj.x = x, obj.y = y.
C8_MoveNeverFails ==
    call.op = "move"
        => (~raised /\ ox[call.obj] = call.x /\ oy[call.obj] = call.y)

\* C9: for an object stored in exactly one cell and an in-range destination,
\* after move the object is at the destination and in no other cell, its
\* former cell is empty unless it is the destination, every other cell is
\* unchanged; a move to the cell it already occupies changes nothing.
C9_MoveFrame ==
    [][(/\ call'.op = "move"
        /\ pre'.n = 1
        /\ call'.x \in 0 .. 8 /\ call'.y \in 0 .. 4)
          => /\ ~raised'
             /\ \A c \in Cells :
                   array'[c[1]][c[2]] =
                       IF c = <<call'.x, call'.y>> THEN call'.obj
                       ELSE IF c = pre'.at THEN None
                       ELSE array[c[1]][c[2]]
             /\ Count(array', call'.obj) = 1
             /\ pre'.at = <<call'.x, call'.y>> => array' = array]_vars

\* C9 witness: an object stored in exactly one cell has been moved to the
\* cell it already occupied and is still stored there only.
C9_Witness ==
    /\ call.op = "move" /\ ~raised
    /\ pre.n = 1
    /\ pre.at = <<call.x, call.y>>
    /\ call.x \in 0 .. 8 /\ call.y \in 0 .. 4
    /\ array[call.x][call.y] = call.obj
    /\ Count(array, call.obj) = 1

\* C10: at(x, y) never fails: out of range (negative coordinates included)
\* it returns None whatever the table holds, in range it returns the value
\* stored in the cell.
C10_AtTotal ==
    call.op = "getitem"
        => /\ ~raised
           /\ ret = IF call.x >= 0 /\ call.x <= 8 /\ call.y >= 0 /\ call.y <= 4
                    THEN array[call.x][call.y]
                    ELSE None

\* C10 witness: a read at (-1, -1) returned None although the cell Python's
\* negative index addresses is occupied.
C10_Witness ==
    /\ call.op = "getitem"
    /\ call.x = -1 /\ call.y = -1
    /\ array[W - 1][H - 1] # None
    /\ ret = None

\* C11: enemy_spawn_location returns (-1, -1) or a coordinate with x in 6..8
\* and y in 0..4 whose cell is empty; it never changes the table.
C11_SpawnResult ==
    [][/\ array' = array
       /\ spawn'.pc = "done"
             => \/ ret' = <<-1, -1>>
                \/ /\ ret'[1] >= 6 /\ ret'[1] <= 8
                   /\ ret'[2] >= 0 /\ ret'[2] <= 4
                   /\ array[ret'[1]][ret'[2]] = None]_vars

\* C11 witness: the search returned a zone cell on a board whose zone holds
\* both occupied and empty cells, after a draw that was refused.
C11_Witness ==
    /\ spawn.pc = "done"
    /\ spawn.i = 2
    /\ ret \in SpawnZone
    /\ \E c \in SpawnZone : array[c[1]][c[2]] # None
    /\ array[ret[1]][ret[2]] = None

\* C12: the search makes at most max_attempts draws and terminates; on a
\* board whose 15 zone cells are all occupied it makes exactly max_attempts
\* draws and returns (-1, -1).
C12_BoundedDraws ==
    /\ [](/\ spawn.i <= spawn.max
          /\ (spawn.pc = "done"
                 /\ \A x \in 6 .. 8 : \A y \in 0 .. 4 : array[x][y] # None)
                => (spawn.i = spawn.max /\ ret = <<-1, -1>>))
    /\ (spawn.pc = "loop") ~> (spawn.pc = "done")

\* C12 witness: on a full zone the search has ended after MaxAttempts draws.
C12_Witness ==
    /\ spawn.pc = "done"
    /\ \A x \in 6 .. 8 : \A y \in 0 .. 4 : array[x][y] # None
    /\ spawn.max = MaxAttempts
    /\ spawn.i = MaxAttempts
    /\ ret = <<-1, -1>>

\* C18: the search is incomplete: it returns (-1, -1) exactly when every one
\* of its max_attempts draws hit an occupied cell, whether or not the zone
\* still has an empty cell; otherwise it returns its last draw.
C18_SentinelIffDrawsRefused ==
    spawn.pc = "done"
        => /\ ret = <<-1, -1>> \/ ret = <<call.x, call.y>>
           /\ ret = <<-1, -1>>
                 <=> /\ spawn.i = spawn.max
                     /\ spawn.max = 0 \/ array[call.x][call.y] # None

\* C18 witness: with max_attempts >= 1 the search returned (-1, -1) although
\* the zone holds an occupied and an empty cell.
C18_Witness ==
    /\ spawn.pc = "done"
    /\ spawn.max >= 1
    /\ ret = <<-1, -1>>
    /\ \E c \in SpawnZone : array[c[1]][c[2]] # None
    /\ \E c \in SpawnZone : array[c[1]][c[2]] = None

\* C13: surrounding_tiles(cx, cy, d) yields exactly the in-range coordinates
\* of the square [cx-d, cx+d] x [cy-d, cy+d] other than (cx, cy), each once,
\* by x ascending then y ascending; (4,2,1) and (0,0,1) yield the lists of
\* the specification.
C13_SurroundingTiles ==
    call.op = "surrounding_tiles"
        => LET S == {c \in (call.x - call.d .. call.x + call.d)
                           \X (call.y - call.d .. call.y + call.d) :
                        /\ c[1] >= 0 /\ c[1] <= 8 /\ c[2] >= 0 /\ c[2] <= 4
                        /\ c # <<call.x, call.y>>}
           IN  /\ ~raised
               /\ Len(ret) = Cardinality(S)
               /\ \A i \in 1 .. Len(ret) : ret[i] \in S
               /\ \A i \in 1 .. Len(ret) : \A j \in 1 .. Len(ret) :
                     i < j => \/ ret[i][1] < ret[j][1]
                              \/ ret[i][1] = ret[j][1] /\ ret[i][2] < ret[j][2]
               /\ (call.x = 4 /\ call.y = 2 /\ call.d = 1)
                     => ret = << <<3, 1>>, <<3, 2>>, <<3, 3>>, <<4, 1>>,
                                 <<4, 3>>, <<5, 1>>, <<5, 2>>, <<5, 3>> >>
               /\ (call.x = 0 /\ call.y = 0 /\ call.d = 1)
                     => ret = << <<0, 1>>, <<1, 0>>, <<1, 1>> >>

\* C13 witness: the neighbourhood of the corner (0, 0) at distance 1.
C13_Witness ==
    /\ call.op = "surrounding_tiles"
    /\ call.x = 0 /\ call.y = 0 /\ call.d = 1
    /\ ret = << <<0, 1>>, <<1, 0>>, <<1, 1>> >>

\* C14: surrounding_objects(x, y, d) yields exactly the objects stored in the
\* occupied cells among the surrounding coordinates, in that order; it never
\* yields the object of the centre cell and never yields None.
C14_SurroundingObjects ==
    call.op = "surrounding_objects"
        => LET Occ == {c \in (call.x - call.d .. call.x + call.d)
                             \X (call.y - call.d .. call.y + call.d) :
                          /\ c[1] >= 0 /\ c[1] <= 8 /\ c[2] >= 0 /\ c[2] <= 4
                          /\ c # <<call.x, call.y>>
                          /\ array[c[1]][c[2]] # None}
               Rank(c) == 1 + Cardinality({e \in Occ :
                                 e[1] < c[1] \/ (e[1] = c[1] /\ e[2] < c[2])})
           IN  /\ ~raised
               /\ Len(ret) = Cardinality(Occ)
               /\ \A c \in Occ : ret[Rank(c)] = array[c[1]][c[2]]
               /\ \A i \in 1 .. Len(ret) :
                     /\ ret[i] # None
                     /\ <<call.x, call.y>> \in Cells
                           => ret[i] # array[call.x][call.y]

\* C15: the queries can_move_to_tile, can_move, is_valid, __getitem__,
\* coordinates, get_tile, surrounding_tiles and surrounding_objects leave the
\* table, the tiles and every object's x, y and move unchanged.
C15_QueriesArePure ==
    [][/\ array' = array
       /\ tiles' = tiles
       /\ ox' = ox /\ oy' = oy
       /\ omove' = omove]_vars

\* C15 witness: a movement request for an out-of-range target was refused.
C15_Witness ==
    /\ call.op = "can_move_to_tile"
    /\ call.x = -1
    /\ ret = FALSE

\* C16: coordinates(obj) returns the first cell holding obj with x scanned in
\* the outer loop and y in the inner one, and (-1, -1) exactly when no cell
\* holds it, whatever obj.x and obj.y say.
C16_FirstInScanOrder ==
    call.op = "coordinates"
        => LET hits == {c \in Cells : array[c[1]][c[2]] = call.obj}
           IN  /\ ~raised
               /\ hits = {} <=> ret = <<-1, -1>>
               /\ hits # {}
                     => /\ ret \in hits
                        /\ \A c \in hits :
                              ret[1] < c[1] \/ (ret[1] = c[1] /\ ret[2] <= c[2])

\* C16 witness: the object is stored at (0, 1) and at (1, 0), reports another
\* position, and (0, 1) is returned.
C16_Witness ==
    /\ call.op = "coordinates"
    /\ array[0][1] = call.obj /\ array[1][0] = call.obj
    /\ array[0][0] # call.obj
    /\ <<ox[call.obj], oy[call.obj]>> # <<0, 1>>
    /\ ret = <<0, 1>>

\* C17: when set and add are issued only after can_move returned True and
\* move only after can_move_to_tile returned True, no call removes or
\* overwrites an object other than the one it names, and every stored object
\* sits at the in-range cell its x, y report.
C17_ProtocolKeepsOthers ==
    [][/\ \A c \in Cells :
             array'[c[1]][c[2]] # array[c[1]][c[2]]
                 => array[c[1]][c[2]] \in {None, call'.obj}
       /\ \A c \in Cells :
             array'[c[1]][c[2]] # None
                 => <<ox'[array'[c[1]][c[2]]], oy'[array'[c[1]][c[2]]]>> = c]_vars

\* C19: one call of initialize_tiles on the new board leaves exactly 45
\* tiles, one for each coordinate with x in 0..8 and y in 0..4; get_tile then
\* returns the tile of an in-range coordinate and None for an out-of-range
\* one; and no set, add, remove, move, spawn search or neighbourhood query
\* adds, removes or re-addresses a tile.
C19_TilesOncePerCell ==
    [][/\ (call'.op = "initialize_tiles" /\ tiles = <<>>)
             => /\ Len(tiles') = 45
                /\ \A x \in 0 .. 8 : \A y \in 0 .. 4 :
                      Cardinality({i \in 1 .. Len(tiles') : tiles'[i] = <<x, y>>}) = 1
                /\ \A x \in -1 .. 9 : \A y \in -1 .. 5 :
                      IF x >= 0 /\ x <= 8 /\ y >= 0 /\ y <= 4
                      THEN get_tile(tiles', x, y) = <<x, y>>
                      ELSE get_tile(tiles', x, y) = None
       /\ (call'.op = "get_tile" /\ Len(tiles) = 45)
             => IF call'.x >= 0 /\ call'.x <= 8 /\ call'.y >= 0 /\ call'.y <= 4
                THEN ret' = <<call'.x, call'.y>>
                ELSE ret' = None
       /\ call'.op # "initialize_tiles" => tiles' = tiles]_vars

\* C19 witness: after one setup, placements and a spawn search, get_tile
\* finds the tile of the far corner.
C19_Witness ==
    /\ Len(tiles) = 45
    /\ array[8][4] # None
    /\ spawn.pc = "done"
    /\ call.op = "get_tile"
    /\ call.x = 8 /\ call.y = 4
    /\ ret = <<8, 4>>

\* C20: remove leaves the object's x, y untouched, so for an object stored in
\* exactly one in-range cell, remove followed at once by add restores the
\* table and the object's x, y.
C20_RemoveThenAddRestores ==
    \A o \in Objs :
        Count(array, o) = 1
            => LET b1 == remove(Board, o)
                   b2 == add(b1, o)
               IN  /\ b1.ox = ox /\ b1.oy = oy
                   /\ ~b2.raised
                   /\ b2.array = array
                   /\ b2.ox = ox /\ b2.oy = oy
====
